---------------------------- MODULE Spec2Model ----------------------------
(***************************************************************************)
(* price-watch: the websearch adapter (src/adapters/websearch.py) and the  *)
(* run loop that drives it (src/main.py).                                  *)
(*                                                                         *)
(* Text is modelled as a sequence of atoms (one-character strings for      *)
(* numerals and host names, words for page text and type tags).  A Python  *)
(* float is an integer number of hundredths.  Python's None is the option  *)
(* value None; Some(x) is a present value.  The currency tokens are       *)
(* written in ASCII: "zl" for the zloty sign, "euro" for the euro sign,    *)
(* "kcz" for the crown sign with a hacek.                                  *)
(***************************************************************************)
EXTENDS Integers, Sequences, FiniteSets, TLC

(***************************************************************************)
(* Bounds of the model.                                                    *)
(***************************************************************************)
MaxRuns == 2
MaxResults == 2
MaxJs == 2
MaxCandidates == 3

\* "num": 10 and start += 10: the provider's page size
PageSize == 10

(***************************************************************************)
(* Option values, Python truthiness.                                       *)
(***************************************************************************)
None == [ok |-> FALSE, v |-> 0]
Some(x) == [ok |-> TRUE, v |-> x]

\* float truthiness: None and 0.0 are falsy
Truthy(p) == p.ok /\ p.v # 0

\* Python's `a or b` on float-or-None operands
PyOr(a, b) == IF Truthy(a) THEN a ELSE b

(***************************************************************************)
(* Strings as sequences of atoms.                                          *)
(***************************************************************************)
LowerAtom(a) ==
    CASE a = "Brak" -> "brak"
      [] a = "BRAK" -> "brak"
      [] a = "Product" -> "product"
      [] a = "Offer" -> "offer"
      [] a = "Aggregate" -> "aggregate"
      [] a = "Thing" -> "thing"
      [] a = "PLN" -> "pln"
      [] a = "EUR" -> "eur"
      [] a = "CZK" -> "czk"
      [] a = "USD" -> "usd"
      [] a = "KCZ" -> "kcz"
      [] a = "ZL" -> "zl"
      [] OTHER -> a

\* str.lower()
Lower(s) == [i \in 1..Len(s) |-> LowerAtom(s[i])]

\* str.endswith(w)
EndsWith(s, w) ==
    /\ Len(w) <= Len(s)
    /\ SubSeq(s, Len(s) - Len(w) + 1, Len(s)) = w

\* `w in s` for strings
Contains(s, w) ==
    \E i \in 0..(Len(s) - Len(w)) : SubSeq(s, i + 1, i + Len(w)) = w

RECURSIVE SplitDot(_)
\* str.split(".")
SplitDot(s) ==
    IF \A i \in 1..Len(s) : s[i] # "."
    THEN <<s>>
    ELSE LET i == CHOOSE j \in 1..Len(s) :
                     s[j] = "." /\ \A k \in 1..(j - 1) : s[k] # "."
         IN <<SubSeq(s, 1, i - 1)>> \o SplitDot(SubSeq(s, i + 1, Len(s)))

RECURSIVE JoinDot(_)
\* ".".join(parts)
JoinDot(parts) ==
    IF Len(parts) = 0 THEN <<>>
    ELSE IF Len(parts) = 1 THEN parts[1]
    ELSE parts[1] \o <<".">> \o JoinDot(Tail(parts))

\* parts[-n:]
LastN(parts, n) ==
    IF Len(parts) <= n THEN parts ELSE SubSeq(parts, Len(parts) - n + 1, Len(parts))

\* _domain(url): url.host is urlparse(url).hostname
_domain(url) ==
    LET parts == SplitDot(url.host)
    IN IF Len(parts) >= 3 /\ Len(parts[Len(parts)]) <= 3
       THEN JoinDot(LastN(parts, 3))
       ELSE JoinDot(LastN(parts, 2))

(***************************************************************************)
(* Numerals.                                                               *)
(***************************************************************************)
Digits == {"0", "1", "2", "3", "4", "5", "6", "7", "8", "9"}

DigitVal(c) ==
    CASE c = "0" -> 0 [] c = "1" -> 1 [] c = "2" -> 2 [] c = "3" -> 3
      [] c = "4" -> 4 [] c = "5" -> 5 [] c = "6" -> 6 [] c = "7" -> 7
      [] c = "8" -> 8 [] c = "9" -> 9

DigitChar(n) ==
    CASE n = 0 -> "0" [] n = 1 -> "1" [] n = 2 -> "2" [] n = 3 -> "3"
      [] n = 4 -> "4" [] n = 5 -> "5" [] n = 6 -> "6" [] n = 7 -> "7"
      [] n = 8 -> "8" [] n = 9 -> "9"

RECURSIVE DigitsVal(_)
DigitsVal(s) ==
    IF Len(s) = 0 THEN 0
    ELSE DigitsVal(SubSeq(s, 1, Len(s) - 1)) * 10 + DigitVal(s[Len(s)])

RECURSIVE NatStr(_)
NatStr(n) == IF n < 10 THEN <<DigitChar(n)>> ELSE NatStr(n \div 10) \o <<DigitChar(n % 10)>>

\* str(x) of a float x given in hundredths: "149.5", "5.0", "-0.25"
FloatStr(c) ==
    LET a == IF c < 0 THEN -c ELSE c
        frac == a % 100
        fs == IF frac % 10 = 0 THEN <<DigitChar(frac \div 10)>>
              ELSE <<DigitChar(frac \div 10), DigitChar(frac % 10)>>
    IN (IF c < 0 THEN <<"-">> ELSE <<>>) \o NatStr(a \div 100) \o <<".">> \o fs

\* s.replace(a, b) for one-atom a; b = "" deletes
RECURSIVE Replace(_, _, _)
Replace(s, a, b) ==
    IF Len(s) = 0 THEN <<>>
    ELSE (IF s[1] = a THEN (IF b = "" THEN <<>> ELSE <<b>>) ELSE <<s[1]>>)
         \o Replace(Tail(s), a, b)

\* float(s) for the numerals of the model: [sign] digits [. digits] | [sign] . digits,
\* to hundredths; anything else raises ValueError (None here)
ParseFloat(s) ==
    LET neg == Len(s) > 0 /\ s[1] = "-"
        body == IF Len(s) > 0 /\ s[1] \in {"-", "+"} THEN Tail(s) ELSE s
        dots == {i \in 1..Len(body) : body[i] = "."}
        ip == IF dots = {} THEN body
              ELSE SubSeq(body, 1, (CHOOSE i \in dots : TRUE) - 1)
        fp == IF dots = {} THEN <<>>
              ELSE SubSeq(body, (CHOOSE i \in dots : TRUE) + 1, Len(body))
        wellFormed ==
            /\ Cardinality(dots) <= 1
            /\ \A i \in 1..Len(ip) : ip[i] \in Digits
            /\ \A i \in 1..Len(fp) : fp[i] \in Digits
            /\ Len(ip) + Len(fp) > 0
        f1 == IF Len(fp) >= 1 THEN DigitVal(fp[1]) ELSE 0
        f2 == IF Len(fp) >= 2 THEN DigitVal(fp[2]) ELSE 0
        mag == DigitsVal(ip) * 100 + f1 * 10 + f2
    IN IF wellFormed THEN Some(IF neg THEN -mag ELSE mag) ELSE None

\* _to_float(num_str)
_to_float(num_str) ==
    ParseFloat(Replace(Replace(Replace(num_str, "nbsp", " "), " ", ""), ",", "."))

(***************************************************************************)
(* Currency conversion.  rates is the "currency" mapping of the context:   *)
(* parse_eur, parse_czk are flags, eur_to_pln, czk_to_pln are option       *)
(* values holding the rate in hundredths (None: the key is missing).       *)
(***************************************************************************)
\* value * float(rate)
TimesRate(value, rate) == (value * rate) \div 100

\* a conversion that takes the amount as it stands when no rate applies
ConvertLenient(value, unit, rates) ==
    IF Lower(unit) \in {<<"euro">>, <<"eur">>} /\ rates.parse_eur /\ Truthy(rates.eur_to_pln)
    THEN Some(TimesRate(value, rates.eur_to_pln.v))
    ELSE IF Lower(unit) \in {<<"kcz">>, <<"kc">>, <<"czk">>} /\ rates.parse_czk
            /\ Truthy(rates.czk_to_pln)
    THEN Some(TimesRate(value, rates.czk_to_pln.v))
    ELSE Some(value)

_convert_to_pln(value, unit, rates) ==
    LET u == Lower(unit)
    IN IF u \in {<<"zl">>, <<"pln">>} THEN Some(value)
       ELSE IF u \in {<<"euro">>, <<"eur">>}
            THEN IF rates.parse_eur /\ Truthy(rates.eur_to_pln)
                 THEN Some(TimesRate(value, rates.eur_to_pln.v))
                 ELSE None
       ELSE IF u \in {<<"kcz">>, <<"kc">>, <<"czk">>}
            THEN IF rates.parse_czk /\ Truthy(rates.czk_to_pln)
                 THEN Some(TimesRate(value, rates.czk_to_pln.v))
                 ELSE None
       ELSE None

(***************************************************************************)
(* JSON values as json.loads returns them.  A dict is the sequence of its  *)
(* <<key, value>> pairs in insertion order.  JBad is text json.loads       *)
(* rejects.                                                                *)
(***************************************************************************)
JNull == [t |-> "null"]
JBad == [t |-> "bad"]
JStr(s) == [t |-> "str", s |-> s]
JNum(c) == [t |-> "num", n |-> c]
JList(xs) == [t |-> "list", xs |-> xs]
JDict(kv) == [t |-> "dict", kv |-> kv]

\* bool(x)
JTruthy(j) ==
    CASE j.t = "str" -> Len(j.s) > 0
      [] j.t = "num" -> j.n # 0
      [] j.t = "list" -> Len(j.xs) > 0
      [] j.t = "dict" -> Len(j.kv) > 0
      [] OTHER -> FALSE

\* x or y
JOr(a, b) == IF JTruthy(a) THEN a ELSE b

\* key in node
HasKey(node, k) == \E i \in 1..Len(node.kv) : node.kv[i][1] = k

\* node.get(k)
Get(node, k) ==
    IF HasKey(node, k)
    THEN node.kv[CHOOSE i \in 1..Len(node.kv) : node.kv[i][1] = k][2]
    ELSE JNull

\* isinstance(v, (dict, list))
IsContainer(j) == j.t \in {"dict", "list"}

\* str(x)
PyStr(j) ==
    CASE j.t = "str" -> j.s
      [] j.t = "num" -> FloatStr(j.n)
      [] j.t = "null" -> <<"None">>
      [] j.t = "list" -> <<"[", "]">>
      [] OTHER -> <<"{", "}">>

\* the containers among xs, in order
Containers(xs) == SelectSeq(xs, IsContainer)

\* node.values()
Values(node) == [i \in 1..Len(node.kv) |-> node.kv[i][2]]

(***************************************************************************)
(* Structured extraction (JSON-LD).                                        *)
(***************************************************************************)
\* node.get("@type") or node.get("type") or ""
TypeTag(node) == JOr(JOr(Get(node, "@type"), Get(node, "type")), JStr(<<>>))

\* "product" in t or "offer" in t or "aggregateoffer" in t
IsOfferType(t) ==
    \/ Contains(t, <<"product">>)
    \/ Contains(t, <<"offer">>)
    \/ Contains(t, <<"aggregate", "offer">>)

\* <<p.v>> for a present value, <<>> for None: what prices.append adds
Appended(p) == IF p.ok THEN <<p.v>> ELSE <<>>

\* pln of a parsed price val with currency cur: converted, or val itself
\* when there is no currency ("brak waluty - traktuj jak PLN")
NodePln(val, cur, rates) ==
    IF ~val.ok THEN None
    ELSE IF JTruthy(cur) THEN _convert_to_pln(val.v, PyStr(cur), rates)
    ELSE val

\* `if price:` and below, for the price and currency read from a node
NodePriced(price, cur, rates) ==
    IF JTruthy(price) THEN Appended(NodePln(_to_float(PyStr(price)), cur, rates)) ELSE <<>>

\* the price a node without "offers" contributes: <<>> or <<pln>>
NodePrice(node, rates) ==
    NodePriced(JOr(JOr(Get(node, "price"), Get(node, "lowPrice")), Get(node, "highPrice")),
               JOr(Get(node, "priceCurrency"), Get(node, "pricecurrency")),
               rates)

\* what visiting a dict node with type tag t pushes on the stack
Pushed(node, t) ==
    (IF IsOfferType(t) /\ HasKey(node, "offers") THEN <<Get(node, "offers")>> ELSE <<>>)
    \o Containers(Values(node))

\* a walk that reads the price of a typed node even when it has "offers"
FoundWithOffers(node, t, rates) ==
    IF IsOfferType(t) THEN NodePrice(node, rates) ELSE <<>>

\* what visiting a dict node with type tag t appends to prices
Found(node, t, rates) ==
    IF IsOfferType(t) /\ ~HasKey(node, "offers") THEN NodePrice(node, rates) ELSE <<>>

RECURSIVE Walk(_, _, _)
\* one dict node popped from the stack, tag its type tag: the AttributeError
\* of .lower() on a tag that is not a string, or the walk goes on
WalkDict(node, tag, rest, prices, rates) ==
    IF tag.t # "str" THEN [raised |-> TRUE, prices |-> prices]
    ELSE Walk(rest \o Pushed(node, Lower(tag.s)),
              prices \o Found(node, Lower(tag.s), rates),
              rates)

\* one node popped from the stack
WalkNode(node, rest, prices, rates) ==
    IF node.t = "dict" THEN WalkDict(node, TypeTag(node), rest, prices, rates)
    ELSE IF node.t = "list" THEN Walk(rest \o Containers(node.xs), prices, rates)
    ELSE Walk(rest, prices, rates)

\* the while-stack loop: [raised, prices]
Walk(stack, prices, rates) ==
    IF Len(stack) = 0 THEN [raised |-> FALSE, prices |-> prices]
    ELSE WalkNode(stack[Len(stack)], SubSeq(stack, 1, Len(stack) - 1), prices, rates)

\* min(xs) of a non-empty sequence
MinOf(xs) == CHOOSE m \in {xs[i] : i \in 1..Len(xs)} : \A i \in 1..Len(xs) : m <= xs[i]

\* json.loads of the lines of a block that is not one JSON value
Chunks(block) == SelectSeq(block.lines, LAMBDA l : l.t # "bad")

\* stack = [data] for one script block; no stack when the block is skipped
\* (empty, or neither the block nor any of its lines parses)
BlockStack(block) ==
    IF block.whole.t # "bad" THEN <<block.whole>>
    ELSE IF Len(Chunks(block)) = 0 THEN <<>>
    ELSE <<JList(Chunks(block))>>

RECURSIVE WalkBlocks(_, _, _)
\* after one block: the exception leaves the function, or the next block
NextBlock(r, blocks, rates) ==
    IF r.raised THEN r ELSE WalkBlocks(blocks, r.prices, rates)

\* for m in re.finditer(<script ld+json>): ... over the blocks of the text
WalkBlocks(blocks, prices, rates) ==
    IF Len(blocks) = 0 THEN [raised |-> FALSE, prices |-> prices]
    ELSE NextBlock(Walk(BlockStack(blocks[1]), prices, rates), Tail(blocks), rates)

\* min(prices) if prices else None
MinOrNone(prices) == IF Len(prices) > 0 THEN Some(MinOf(prices)) ELSE None

\* return of _extract_from_jsonld after the walk r
LdResult(r) == [raised |-> r.raised, v |-> IF r.raised THEN None ELSE MinOrNone(r.prices)]

\* _extract_from_jsonld(text, rates): [raised, v]
_extract_from_jsonld(text, rates) == LdResult(WalkBlocks(text.blocks, <<>>, rates))

(***************************************************************************)
(* Pattern extraction: text.matches are the matches of PRICE_RE in order,  *)
(* each [num, unit] (groups 1 and 2).                                      *)
(***************************************************************************)
\* one match: val = _to_float(group 1); None skips the match
MatchPln(val, unit, rates) == IF val.ok THEN _convert_to_pln(val.v, unit, rates) ELSE None

RECURSIVE RegexCandidates(_, _)
RegexCandidates(matches, rates) ==
    IF Len(matches) = 0 THEN <<>>
    ELSE Appended(MatchPln(_to_float(matches[1].num), matches[1].unit, rates))
         \o RegexCandidates(Tail(matches), rates)

_extract_price_regex(text, rates) == MinOrNone(RegexCandidates(text.matches, rates))

\* ld or _extract_price_regex(text, rates), ld the result of the structured
\* extractor: [raised, v, ld, rx] with ld, rx the number of runs of each extractor
OrRegex(ld, text, rates) ==
    IF ld.raised THEN [raised |-> TRUE, v |-> None, ld |-> 1, rx |-> 0]
    ELSE IF Truthy(ld.v) THEN [raised |-> FALSE, v |-> ld.v, ld |-> 1, rx |-> 0]
    ELSE [raised |-> FALSE, v |-> _extract_price_regex(text, rates), ld |-> 1, rx |-> 1]

\* _extract_from_jsonld(text, rates) or _extract_price_regex(text, rates)
ExtractPrice(text, rates) == OrRegex(_extract_from_jsonld(text, rates), text, rates)

(***************************************************************************)
(* The web the process runs against.  A page of text is [text, blocks,     *)
(* matches]: its words, its ld+json script blocks ([whole, lines], each    *)
(* what json.loads gives for the block and for its lines) and the matches  *)
(* of PRICE_RE.  A compiled regex is the literal it searches for.          *)
(***************************************************************************)
Page(text, blocks, matches) == [text |-> text, blocks |-> blocks, matches |-> matches]
Block(whole) == [whole |-> whole, lines |-> <<>>]
Match(num, unit) == [num |-> num, unit |-> unit]

\* p.search(s)
Search(p, s) == Contains(s, p)

LdOffer(price) ==
    JDict(<< <<"@type", JStr(<<"Offer">>)>>, <<"price", price>>,
             <<"priceCurrency", JStr(<<"PLN">>)>> >>)

DocEmpty == Page(<<>>, <<>>, <<>>)
DocFoo == Page(<<"Foo">>, <<>>, <<>>)
DocPriced ==
    Page(<<"Foo">>, <<>>,
         <<Match(<<"1", " ", "2", "9", "9", ",", "0", "0">>, <<"zl">>),
           Match(<<"5">>, <<"EUR">>)>>)
DocLd ==
    Page(<<"Foo">>,
         <<Block(JBad),
           Block(JDict(<< <<"@type", JStr(<<"Product">>)>>,
                          <<"offers", JList(<<LdOffer(JNum(19999)),
                                              LdOffer(JStr(<<"1", "4", "9", ".", "5", "0">>))>>)>> >>))>>,
         <<Match(<<"5">>, <<"zl">>)>>)
DocOos == Page(<<"Foo", "BRAK">>, <<>>, <<Match(<<"5">>, <<"zl">>)>>)
DocZero == Page(<<"Foo">>, <<Block(LdOffer(JStr(<<"0">>)))>>, <<Match(<<"0">>, <<"zl">>)>>)
DocTypeList ==
    Page(<<"Foo">>,
         <<Block(JDict(<< <<"@type", JList(<<JStr(<<"Product">>)>>)>>,
                          <<"price", JNum(500)>> >>))>>,
         <<>>)

HostA == <<"a", ".", "p", "l">>
HostSA == <<"s", ".", "a", ".", "p", "l">>
HostB == <<"b", ".", "p", "l">>
Url(host, path) == [host |-> host, path |-> path]
NoLink == Url(<<>>, <<>>)
\* the text of a link, as the regexes see it
LinkText(link) == link.host \o link.path

NoPage == [ok |-> FALSE, v |-> DocEmpty]

TitleFoo == <<"Foo">>
TitleAmp == <<"Bar", "&amp;">>

\* what the provider lists and what fetching and rendering it give; how is how
\* session.get ended: "ok" (a response, pr.text is read), or the exception of
\* a "network_error"
Scenario(link, title, fetch, render) ==
    [link |-> link, title |-> title, fetch |-> fetch, render |-> render,
     how |-> IF fetch.ok THEN "ok" ELSE "network_error"]

\* the same candidate with session.get ending another way: "timeout" (the
\* exception of a timeout) or "http_status" (a response with an error status:
\* session.get returns it and pr.text is its body)
Ending(sc, how) == [sc EXCEPT !.how = how]

Web ==
    { Scenario(Url(HostA, <<"/", "p">>), TitleFoo, Some(DocPriced), NoPage),
      Scenario(Url(HostA, <<"/", "p">>), TitleAmp, Some(DocFoo), Some(DocLd)),
      Scenario(Url(HostSA, <<"/", "p">>), TitleAmp, Some(DocEmpty), Some(DocFoo)),
      Scenario(Url(HostSA, <<"/", "p">>), TitleAmp, Some(DocEmpty), NoPage),
      Scenario(Url(HostA, <<"/", "q">>), TitleFoo, NoPage, NoPage),
      Scenario(Url(HostB, <<"/", "p">>), TitleFoo, Some(DocFoo), NoPage),
      Scenario(Url(HostA, <<"/", "x">>), TitleFoo, Some(DocFoo), NoPage),
      Scenario(Url(HostB, <<"/", "x">>), TitleFoo, Some(DocFoo), NoPage),
      Scenario(Url(HostA, <<"/", "q">>), TitleFoo, Some(DocOos), Some(DocPriced)),
      Scenario(Url(HostA, <<"/", "q">>), TitleFoo, Some(DocFoo), Some(DocOos)),
      Scenario(Url(HostA, <<"/", "p">>), TitleFoo, Some(DocZero), NoPage),
      Scenario(Url(HostA, <<"/", "q">>), TitleFoo, Some(DocTypeList), NoPage),
      Ending(Scenario(Url(HostA, <<"/", "q">>), TitleFoo, NoPage, NoPage), "timeout"),
      Ending(Scenario(Url(HostA, <<"/", "q">>), TitleFoo, Some(DocFoo), NoPage), "http_status"),
      Scenario(NoLink, TitleFoo, NoPage, NoPage) }

(***************************************************************************)
(* The configuration (config.yaml as run_once passes it in ctx) and the    *)
(* environment variables.  A product-identity pattern is [lit, valid]:     *)
(* the literal it searches for and whether re.compile accepts it.          *)
(***************************************************************************)
Regex(lit) == [lit |-> lit, valid |-> TRUE]
Malformed == [lit |-> <<"(">>, valid |-> FALSE]
NoPattern == [ok |-> FALSE, v |-> Malformed]

Filters ==
    [whitelist : {{}, {HostA}},
     blacklist : {{}, {HostB}},
     url_whitelist_patterns : {{}, {<<"/", "p">>, <<"/", "q">>}},
     url_blacklist_patterns : {{}, {<<"/", "x">>}}]
Stocks == [require_in_stock : BOOLEAN, out_of_stock : {{}, {<<"Brak">>}}]
Renderings ==
    [enable_js : BOOLEAN, max_js_pages_per_run : 0..MaxJs, js_domains_whitelist : {{}, {HostA}}]
Currencies ==
    { [parse_eur |-> FALSE, eur_to_pln |-> None, parse_czk |-> FALSE, czk_to_pln |-> None],
      [parse_eur |-> TRUE, eur_to_pln |-> Some(430), parse_czk |-> FALSE, czk_to_pln |-> None] }
ProductLists ==
    { <<Some(Regex(<<"Foo">>))>>, <<NoPattern>>, <<Some(Malformed)>>,
      <<Some(Regex(<<"Foo">>)), NoPattern>> }
Envs == { [keys |-> TRUE, run_once |-> FALSE], [keys |-> TRUE, run_once |-> TRUE],
          [keys |-> FALSE, run_once |-> TRUE] }

Config(f, s, r, m, cur, ps, e) ==
    [websearch |-> [max_results |-> m, site_whitelist |-> f.whitelist,
                    site_blacklist |-> f.blacklist,
                    url_whitelist_patterns |-> f.url_whitelist_patterns,
                    url_blacklist_patterns |-> f.url_blacklist_patterns],
     availability_keywords |-> [out_of_stock |-> s.out_of_stock],
     require_in_stock |-> s.require_in_stock,
     currency |-> cur,
     rendering |-> r,
     products |-> ps,
     env |-> e]

BaseFilter ==
    [whitelist |-> {HostA}, blacklist |-> {HostB},
     url_whitelist_patterns |-> {<<"/", "p">>, <<"/", "q">>},
     url_blacklist_patterns |-> {<<"/", "x">>}]
BaseStock == [require_in_stock |-> TRUE, out_of_stock |-> {<<"Brak">>}]
BaseRendering ==
    [enable_js |-> TRUE, max_js_pages_per_run |-> 1, js_domains_whitelist |-> {HostA}]
BaseCurrency ==
    [parse_eur |-> FALSE, eur_to_pln |-> None, parse_czk |-> FALSE, czk_to_pln |-> None]
BaseProducts == <<Some(Regex(<<"Foo">>))>>
BaseEnv == [keys |-> TRUE, run_once |-> FALSE]

\* the configurations of the model: every setting enabled with max_results 2,
\* and every change of one group of settings from there
Configs ==
    {Config(f, BaseStock, BaseRendering, 2, BaseCurrency, BaseProducts, BaseEnv) :
        f \in Filters}
    \cup {Config(BaseFilter, s, BaseRendering, 2, BaseCurrency, BaseProducts, BaseEnv) :
        s \in Stocks}
    \cup {Config(BaseFilter, BaseStock, r, 2, BaseCurrency, BaseProducts, BaseEnv) :
        r \in Renderings}
    \cup {Config(BaseFilter, BaseStock, BaseRendering, m, BaseCurrency, BaseProducts, BaseEnv) :
        m \in 0..MaxResults}
    \cup {Config(BaseFilter, BaseStock, BaseRendering, 2, c, BaseProducts, BaseEnv) :
        c \in Currencies}
    \cup {Config(BaseFilter, BaseStock, BaseRendering, 2, BaseCurrency, ps, BaseEnv) :
        ps \in ProductLists}
    \cup {Config(BaseFilter, BaseStock, BaseRendering, 2, BaseCurrency, BaseProducts, e) :
        e \in Envs}

(***************************************************************************)
(* search(): the per-candidate cascade.                                    *)
(***************************************************************************)
\* out_words = [w.lower() for w in ... out_of_stock]
OutWords(c) == {Lower(w) : w \in c.availability_keywords.out_of_stock}

\* a compilation that takes every configured pattern as it is written
CompileUnchecked(pat_str) ==
    IF pat_str.ok THEN Some(pat_str.v.lit) ELSE [ok |-> FALSE, v |-> <<>>]

\* re.compile(pat_str) under try/except: the compiled pattern or None
CompilePattern(pat_str) ==
    IF pat_str.ok /\ pat_str.v.valid THEN Some(pat_str.v.lit) ELSE [ok |-> FALSE, v |-> <<>>]

\* the cascade with the path rules left out: only the domain rules filter
DomainRulesOnly(c, link) ==
    IF /\ c.websearch.site_whitelist # {}
       /\ \A w \in c.websearch.site_whitelist : ~EndsWith(_domain(link), w)
    THEN "domain_not_whitelisted"
    ELSE IF \E b \in c.websearch.site_blacklist : EndsWith(_domain(link), b)
    THEN "domain_blacklisted"
    ELSE ""

\* the four rules with each deny rule tested before its allow rule
DenyFirst(c, link) ==
    IF \E b \in c.websearch.site_blacklist : EndsWith(_domain(link), b)
    THEN "domain_blacklisted"
    ELSE IF /\ c.websearch.site_whitelist # {}
            /\ \A w \in c.websearch.site_whitelist : ~EndsWith(_domain(link), w)
    THEN "domain_not_whitelisted"
    ELSE IF \E p \in c.websearch.url_blacklist_patterns : Search(p, LinkText(link))
    THEN "url_blacklisted"
    ELSE IF /\ c.websearch.url_whitelist_patterns # {}
            /\ ~\E p \in c.websearch.url_whitelist_patterns : Search(p, LinkText(link))
    THEN "url_not_whitelisted"
    ELSE ""

\* 1) and 2): the reason the domain and path rules filter the link out, "" if none
FilterReason(c, link) ==
    LET dom == _domain(link)
        ws == c.websearch
    IN IF ws.site_whitelist # {} /\ \A w \in ws.site_whitelist : ~EndsWith(dom, w)
       THEN "domain_not_whitelisted"
       ELSE IF ws.site_blacklist # {} /\ \E b \in ws.site_blacklist : EndsWith(dom, b)
       THEN "domain_blacklisted"
       ELSE IF /\ ws.url_whitelist_patterns # {}
               /\ ~\E p \in ws.url_whitelist_patterns : Search(p, LinkText(link))
       THEN "url_not_whitelisted"
       ELSE IF /\ ws.url_blacklist_patterns # {}
               /\ \E p \in ws.url_blacklist_patterns : Search(p, LinkText(link))
       THEN "url_blacklisted"
       ELSE ""

\* 4) matched = bool(pat.search(title)) or bool(pat.search(text)); True without pat
Matches(pat, title, text) ==
    IF pat.ok THEN Search(pat.v, title) \/ Search(pat.v, text.text) ELSE TRUE

\* the availability test comparing the text as written, without .lower()
OutOfStockExact(c, text) ==
    /\ c.require_in_stock
    /\ OutWords(c) # {}
    /\ \E w \in OutWords(c) : Contains(text.text, w)

\* 5) require_in_stock and out_words and any(w in text.lower() for w in out_words)
OutOfStock(c, text) ==
    /\ c.require_in_stock
    /\ OutWords(c) # {}
    /\ \E w \in OutWords(c) : Contains(Lower(text.text), w)

\* a domain gate that lets every domain through
RenderAnyDomain(c, dom) == TRUE

\* the domain gate of 7): no js whitelist, or the domain ends with an entry
RenderDomainOk(c, dom) ==
    \/ c.rendering.js_domains_whitelist = {}
    \/ \E w \in c.rendering.js_domains_whitelist : EndsWith(dom, w)

\* the budget test off by one: _RENDER_COUNT <= max_js
BudgetInclusive(count, max_js) == count <= max_js

\* _RENDER_COUNT < max_js
BudgetLeft(count, max_js) == count < max_js

\* a counter of the renders that returned markup only
CountSuccess(count, rendered) == IF rendered.ok THEN count + 1 ELSE count

\* _RENDER_COUNT += 1 after _render_and_get_html returned `rendered`
CountRender(count, rendered) == count + 1

\* while fetched < max_results
WhileTest(n, max) == n < max

\* the break test off by one: fetched > max_results
OverFull(n, max) == n > max

\* if fetched >= max_results: break
Full(n, max) == n >= max

\* html.unescape(title)
Unescape(title) == Replace(title, "&amp;", "&")

\* the dict appended to items
Offer(title, link, price) ==
    [store |-> "web", title |-> Unescape(title), url |-> link, price_pln |-> price]

\* what the cascade did with one candidate: the last filtered_out_reason written
\* ("raised": an exception left search()), the calls made, and the offer data
Outcome(reason, fetches, renders, ld, rx, matched, used_js, price) ==
    [reason |-> reason, fetches |-> fetches, renders |-> renders, ld |-> ld, rx |-> rx,
     matched |-> matched, used_js |-> used_js, price |-> price]

\* 7) price is None and enable_js, the js whitelist and the budget
ShouldRender(c, dom, count, price) ==
    /\ ~price.ok
    /\ c.rendering.enable_js
    /\ RenderDomainOk(c, dom)
    /\ BudgetLeft(count, c.rendering.max_js_pages_per_run)

\* a cascade without the final pattern check
AcceptUnchecked(pat, matched, renders, used_js, ld, rx, price) ==
    Outcome("accepted", 1, renders, ld, rx, matched, used_js, price)

\* a final check that also rejects the candidate whose render gave nothing
RejectUnrendered(pat, matched, renders, used_js, ld, rx, price) ==
    IF (pat.ok /\ ~matched) \/ (renders = 1 /\ used_js = 0)
    THEN Outcome("pattern_final_no_match", 1, renders, ld, rx, matched, used_js, price)
    ELSE Outcome("accepted", 1, renders, ld, rx, matched, used_js, price)

\* 8) and 9): the final pattern check, then the accepted offer
Decide(pat, matched, renders, used_js, ld, rx, price) ==
    IF pat.ok /\ ~matched
    THEN Outcome("pattern_final_no_match", 1, renders, ld, rx, matched, used_js, price)
    ELSE Outcome("accepted", 1, renders, ld, rx, matched, used_js, price)

\* no extraction: price = None
NotExtracted == [raised |-> FALSE, v |-> None, ld |-> 0, rx |-> 0]

\* 7) after the render gave markup, with the pattern re-tested (matched) and
\* the price re-extracted (ex) on it
OnRendered(pat, matched, ex0, ex) ==
    IF ex.raised
    THEN Outcome("raised", 1, 1, ex0.ld + ex.ld, ex0.rx + ex.rx, matched, 1, None)
    ELSE Decide(pat, matched, 1, 1, ex0.ld + ex.ld, ex0.rx + ex.rx, ex.v)

\* 7) `if rendered:` pattern, availability and price on the rendered markup
AfterRender(c, pat, sc, matched0, ex0) ==
    OnRendered(pat,
               IF pat.ok /\ ~matched0 THEN Matches(pat, sc.title, sc.render.v) ELSE matched0,
               ex0,
               IF OutOfStock(c, sc.render.v) THEN NotExtracted
               ELSE ExtractPrice(sc.render.v, c.currency))

\* a cascade in which the provisional mismatch rejects at once
RejectProvisional(c, pat, count, sc, matched0, ex0) ==
    IF pat.ok /\ ~matched0
    THEN Outcome("pattern_final_no_match", 1, 0, 0, 0, FALSE, 0, None)
    ELSE IF ex0.raised THEN Outcome("raised", 1, 0, ex0.ld, ex0.rx, matched0, 0, None)
    ELSE IF ShouldRender(c, _domain(sc.link), count, ex0.v) /\ sc.render.ok
    THEN AfterRender(c, pat, sc, matched0, ex0)
    ELSE Decide(pat, matched0,
                IF ShouldRender(c, _domain(sc.link), count, ex0.v) THEN 1 ELSE 0,
                0, ex0.ld, ex0.rx, ex0.v)

\* 6) to 9) with the provisional match and the static extraction done
Priced(c, pat, count, sc, matched0, ex0) ==
    IF ex0.raised THEN Outcome("raised", 1, 0, ex0.ld, ex0.rx, matched0, 0, None)
    ELSE IF ShouldRender(c, _domain(sc.link), count, ex0.v)
    THEN IF sc.render.ok THEN AfterRender(c, pat, sc, matched0, ex0)
         ELSE Decide(pat, matched0, 1, 0, ex0.ld, ex0.rx, ex0.v)
    ELSE Decide(pat, matched0, 0, 0, ex0.ld, ex0.rx, ex0.v)

\* a candidate the domain and path rules filter out: continue, before any fetch
Filtered(why) == Outcome(why, 0, 0, 0, 0, FALSE, 0, None)

\* a cascade that requests the document a second time when the request fails
RefetchOnError(c, pat, count, sc) ==
    IF sc.link = NoLink THEN Outcome("no_link", 0, 0, 0, 0, FALSE, 0, None)
    ELSE IF FilterReason(c, sc.link) # "" THEN Filtered(FilterReason(c, sc.link))
    ELSE IF ~sc.fetch.ok THEN Outcome("fetch_error", 2, 0, 0, 0, FALSE, 0, None)
    ELSE IF OutOfStock(c, sc.fetch.v)
    THEN Outcome("out_of_stock_marker", 1, 0, 0, 0, Matches(pat, sc.title, sc.fetch.v), 0, None)
    ELSE Priced(c, pat, count, sc, Matches(pat, sc.title, sc.fetch.v),
                ExtractPrice(sc.fetch.v, c.currency))

\* the body of `for it in results` for one candidate
Cascade(c, pat, count, sc) ==
    IF sc.link = NoLink THEN Outcome("no_link", 0, 0, 0, 0, FALSE, 0, None)
    ELSE IF FilterReason(c, sc.link) # "" THEN Filtered(FilterReason(c, sc.link))
    ELSE IF ~sc.fetch.ok THEN Outcome("fetch_error", 1, 0, 0, 0, FALSE, 0, None)
    ELSE IF OutOfStock(c, sc.fetch.v)
    THEN Outcome("out_of_stock_marker", 1, 0, 0, 0, Matches(pat, sc.title, sc.fetch.v), 0, None)
    ELSE Priced(c, pat, count, sc, Matches(pat, sc.title, sc.fetch.v),
                ExtractPrice(sc.fetch.v, c.currency))

RECURSIVE DedupFirst(_, _)
\* deduplication that keeps the first offer of a URL
DedupFirst(items, uniq) ==
    IF Len(items) = 0 THEN uniq
    ELSE DedupFirst(Tail(items),
                    IF \E i \in 1..Len(uniq) : uniq[i].url = items[1].url THEN uniq
                    ELSE Append(uniq, items[1]))

RECURSIVE DedupInto(_, _)
\* for o in items: uniq[o["url"]] = o -- uniq as the sequence of its values
DedupInto(items, uniq) ==
    IF Len(items) = 0 THEN uniq
    ELSE LET o == items[1]
             at == {i \in 1..Len(uniq) : uniq[i].url = o.url}
         IN DedupInto(Tail(items),
                      IF at = {} THEN Append(uniq, o)
                      ELSE [uniq EXCEPT ![CHOOSE i \in at : TRUE] = o])

\* list(uniq.values())
Dedup(items) == DedupInto(items, <<>>)

(***************************************************************************)
(* The process: main.py's __main__ and run_once, and search() inside it.   *)
(*   pc          where the process is: "main", "run" (run_once, at the top *)
(*               of its loop over products), "while" (search, at its while *)
(*               test), "for" (search, inside the loop over a page of      *)
(*               results), "sched" (the scheduler waits for the next run), *)
(*               "exit"                                                    *)
(*   cfg         the configuration and environment, loaded once            *)
(*   runs        run_once passes started so far                            *)
(*   prod        index of the product run_once is at                       *)
(*   offers      what the last search() call gave run_once                 *)
(*   call        how the last search() call ended: "returned", "raised",   *)
(*               "" while none has ended or one is running (history)       *)
(*   _RENDER_COUNT  the module global of websearch.py                      *)
(*   pat, fetched, items, start   locals of search(); items stays visible  *)
(*               after the call, until the next call starts                *)
(*   results     results of the current page not yet iterated              *)
(*   listed      results the provider has returned to this call (history)  *)
(*   renders     render invocations since the process started (history)    *)
(*   run_renders render invocations since the current run started (history)*)
(*   last        the last candidate iterated and what the cascade did      *)
(*               with it (history)                                         *)
(***************************************************************************)
VARIABLES pc, cfg, runs, prod, offers, call, _RENDER_COUNT, pat, fetched, items, start,
          results, listed, renders, run_renders, last

vars == <<pc, cfg, runs, prod, offers, call, _RENDER_COUNT, pat, fetched, items, start,
          results, listed, renders, run_renders, last>>

locals == <<pat, fetched, items, start, results, listed>>

NoPat == [ok |-> FALSE, v |-> <<>>]
NoLast == [sc |-> Scenario(NoLink, <<>>, NoPage, NoPage),
           out |-> Outcome("", 0, 0, 0, 0, FALSE, 0, None),
           count |-> 0]

Init ==
    /\ pc = "main"
    /\ cfg \in Configs
    /\ runs = 0
    /\ prod = 1
    /\ offers = <<>>
    /\ call = ""
    /\ _RENDER_COUNT = 0
    /\ pat = NoPat
    /\ fetched = 0
    /\ items = <<>>
    /\ start = 1
    /\ results = 0
    /\ listed = 0
    /\ renders = 0
    /\ run_renders = 0
    /\ last = NoLast

max_results == cfg.websearch.max_results

\* __main__: with RUN_ONCE set, run_once(cfg); else the scheduler's job, whose
\* first run is due at once (next_run_time=datetime.now())
Main ==
    /\ pc = "main"
    /\ pc' = "run"
    /\ runs' = 1
    /\ prod' = 1
    /\ run_renders' = 0
    /\ UNCHANGED <<cfg, offers, call, _RENDER_COUNT, locals, renders, last>>

\* the scheduler starts the next run_once pass in the same process
Scheduler ==
    /\ pc = "sched"
    /\ runs < MaxRuns
    /\ pc' = "run"
    /\ runs' = runs + 1
    /\ prod' = 1
    /\ run_renders' = 0
    /\ UNCHANGED <<cfg, offers, call, _RENDER_COUNT, locals, renders, last>>

\* run_once returns: the process exits, or the scheduler waits
RunOnceEnd ==
    /\ pc = "run"
    /\ prod > Len(cfg.products)
    /\ pc' = IF cfg.env.run_once THEN "exit" ELSE "sched"
    /\ UNCHANGED <<cfg, runs, prod, offers, call, _RENDER_COUNT, locals, renders, run_renders, last>>

\* a caller that keeps what search() had accepted when the exception left it
LeaveWithItems(how, result) ==
    /\ pc' = "run"
    /\ prod' = prod + 1
    /\ call' = how
    /\ offers' = IF how = "raised" THEN Dedup(items) ELSE result
    /\ pat' = NoPat
    /\ fetched' = 0
    /\ start' = 1
    /\ results' = 0
    /\ listed' = 0

\* search() leaves, by return (how = "returned") or by an exception that
\* run_once catches (how = "raised", offers = []); run_once goes on with the
\* next product
Leave(how, result) ==
    /\ pc' = "run"
    /\ prod' = prod + 1
    /\ call' = how
    /\ offers' = IF how = "raised" THEN <<>> ELSE result
    /\ pat' = NoPat
    /\ fetched' = 0
    /\ start' = 1
    /\ results' = 0
    /\ listed' = 0

\* search() without GOOGLE_CSE_KEY or GOOGLE_CSE_CX: return []
SearchNoKeys ==
    /\ pc = "run"
    /\ prod <= Len(cfg.products)
    /\ ~cfg.env.keys
    /\ Leave("returned", <<>>)
    /\ items' = <<>>
    /\ last' = NoLast
    /\ UNCHANGED <<cfg, runs, _RENDER_COUNT, renders, run_renders>>

\* run_once calls search(name, ctx) with the product's pattern
SearchEnter ==
    /\ pc = "run"
    /\ prod <= Len(cfg.products)
    /\ cfg.env.keys
    /\ pc' = "while"
    /\ pat' = CompilePattern(cfg.products[prod])
    /\ fetched' = 0
    /\ items' = <<>>
    /\ start' = 1
    /\ results' = 0
    /\ listed' = 0
    /\ offers' = <<>>
    /\ call' = ""
    /\ last' = NoLast
    /\ UNCHANGED <<cfg, runs, prod, _RENDER_COUNT, renders, run_renders>>

\* the provider request fails: raise_for_status() or the request raises,
\* search() is left by the exception and run_once logs it
ProviderFails ==
    /\ pc = "while"
    /\ WhileTest(fetched, max_results)
    /\ Leave("raised", <<>>)
    /\ items' = items
    /\ last' = NoLast
    /\ UNCHANGED <<cfg, runs, _RENDER_COUNT, renders, run_renders>>

\* the provider returns no items: break, deduplicate, return
ProviderEmpty ==
    /\ pc = "while"
    /\ WhileTest(fetched, max_results)
    /\ Leave("returned", Dedup(items))
    /\ items' = items
    /\ last' = NoLast
    /\ UNCHANGED <<cfg, runs, _RENDER_COUNT, renders, run_renders>>

\* the provider returns a page of 1..PageSize items
ProviderPage ==
    /\ pc = "while"
    /\ WhileTest(fetched, max_results)
    /\ \E n \in 1..PageSize :
          /\ listed + n <= MaxCandidates
          /\ results' = n
          /\ listed' = listed + n
    /\ pc' = "for"
    /\ last' = NoLast
    /\ UNCHANGED <<cfg, runs, prod, offers, call, _RENDER_COUNT, pat, fetched, items,
                   start, renders, run_renders>>

\* the while test fails: deduplicate, return
SearchReturn ==
    /\ pc = "while"
    /\ ~WhileTest(fetched, max_results)
    /\ Leave("returned", Dedup(items))
    /\ items' = items
    /\ last' = NoLast
    /\ UNCHANGED <<cfg, runs, _RENDER_COUNT, renders, run_renders>>

\* one iteration of `for it in results`, up to its continue, its break, the
\* end of the page (start += 10) or the exception that leaves search()
Candidate ==
    /\ pc = "for"
    /\ \E sc \in Web : \E out \in {Cascade(cfg, pat, _RENDER_COUNT, sc)} :
          LET accepted == out.reason = "accepted"
              full == accepted /\ Full(fetched + 1, max_results)
          IN /\ last' = [sc |-> sc, out |-> out, count |-> _RENDER_COUNT]
             /\ _RENDER_COUNT' = IF out.renders = 1
                                  THEN CountRender(_RENDER_COUNT, sc.render)
                                  ELSE _RENDER_COUNT
             /\ renders' = renders + out.renders
             /\ run_renders' = run_renders + out.renders
             /\ IF out.reason = "raised"
                THEN Leave("raised", <<>>) /\ items' = items
                ELSE /\ items' = IF accepted
                                 THEN Append(items, Offer(sc.title, sc.link, out.price))
                                 ELSE items
                     /\ fetched' = IF accepted THEN fetched + 1 ELSE fetched
                     /\ IF full \/ results = 1
                        THEN pc' = "while" /\ start' = start + PageSize /\ results' = 0
                        ELSE pc' = "for" /\ start' = start /\ results' = results - 1
                     /\ UNCHANGED <<prod, offers, call, pat, listed>>
    /\ UNCHANGED <<cfg, runs>>

Next ==
    \/ Main
    \/ Scheduler
    \/ RunOnceEnd
    \/ SearchNoKeys
    \/ SearchEnter
    \/ ProviderFails
    \/ ProviderEmpty
    \/ ProviderPage
    \/ SearchReturn
    \/ Candidate

Spec == Init /\ [][Next]_vars

(***************************************************************************)
(* Properties.  The predicates below describe a candidate by its link and  *)
(* documents and the configuration alone, not by what the cascade did.     *)
(***************************************************************************)
MaxJsPages == cfg.rendering.max_js_pages_per_run
Markers == cfg.availability_keywords.out_of_stock

\* a candidate was iterated in the last step
Iterated == last # NoLast

\* the link fails the allow-set or the deny-set of domains
FailsDomainRule(c, link) ==
    \/ /\ c.websearch.site_whitelist # {}
       /\ ~\E w \in c.websearch.site_whitelist : EndsWith(_domain(link), w)
    \/ \E b \in c.websearch.site_blacklist : EndsWith(_domain(link), b)

\* the link fails the allow-patterns or the deny-patterns of paths
FailsPathRule(c, link) ==
    \/ /\ c.websearch.url_whitelist_patterns # {}
       /\ \A p \in c.websearch.url_whitelist_patterns : ~Contains(LinkText(link), p)
    \/ \E p \in c.websearch.url_blacklist_patterns : Contains(LinkText(link), p)

\* the text holds a configured out-of-stock marker, case-insensitively
HasMarker(doc) == \E w \in Markers : Contains(Lower(doc.text), Lower(w))

\* the candidate has a link that passes the rules and its document was fetched
Fetched(c, sc) ==
    /\ sc.link # NoLink
    /\ ~FailsDomainRule(c, sc.link)
    /\ ~FailsPathRule(c, sc.link)
    /\ sc.fetch.ok

\* C1: within one run_once pass the renderer is invoked at most
\* max_js_pages_per_run times, whatever candidates the pass iterates.
C1_RendersPerRunWithinBudget == run_renders <= MaxJsPages

\* C1's case: the pass has used its whole budget of at least one render, and
\* the candidate just iterated was fetched, has no price, is on a domain that
\* may be rendered, and was not rendered.
C1_BudgetExhaustedAndMore ==
    /\ Iterated
    /\ MaxJsPages >= 1
    /\ run_renders = MaxJsPages
    /\ cfg.rendering.enable_js
    /\ RenderDomainOk(cfg, _domain(last.sc.link))
    /\ last.out.fetches = 1
    /\ ~last.out.price.ok
    /\ last.out.renders = 0
    /\ last.out.reason \in {"accepted", "pattern_final_no_match"}

\* C2: at the start of every run_once pass, the scheduler's second and later
\* passes included, the number of renders consumed is zero.
C2_BudgetResetsPerRun == (pc = "run" /\ prod = 1) => _RENDER_COUNT = 0

\* C3: the render counter equals the number of render attempts made so far,
\* whether the attempts returned markup or failed.
C3_CounterCountsAttempts == _RENDER_COUNT = renders

\* C3's case: the render just attempted failed and was counted.
C3_FailedRenderCounted ==
    /\ Iterated
    /\ last.out.renders = 1
    /\ ~last.sc.render.ok
    /\ _RENDER_COUNT = last.count + 1

\* C4: an accepted candidate passed the domain rules, the path rules, the
\* product pattern when one is compiled, and the in-stock requirement when it
\* is set, on the static text and on the rendered text of a successful render.
C4_AcceptedPassedCascade ==
    (Iterated /\ last.out.reason = "accepted") =>
        /\ ~FailsDomainRule(cfg, last.sc.link)
        /\ ~FailsPathRule(cfg, last.sc.link)
        /\ pat.ok =>
              \/ Contains(last.sc.title, pat.v)
              \/ Contains(last.sc.fetch.v.text, pat.v)
              \/ last.out.used_js = 1 /\ Contains(last.sc.render.v.text, pat.v)
        /\ cfg.require_in_stock =>
              /\ ~HasMarker(last.sc.fetch.v)
              /\ last.out.used_js = 1 => ~HasMarker(last.sc.render.v)

\* C5: a candidate whose link fails a domain rule or a path rule causes no
\* document fetch and no render.
C5_FilteredNeverFetched ==
    (Iterated /\ last.sc.link # NoLink
        /\ (FailsDomainRule(cfg, last.sc.link) \/ FailsPathRule(cfg, last.sc.link))) =>
        /\ last.out.fetches = 0
        /\ last.out.renders = 0
        /\ _RENDER_COUNT = last.count

\* C5's case: a link that passes the domain rules and fails a path rule, with
\* a document that could have been fetched, was iterated.
C5_PathRejected ==
    /\ Iterated
    /\ last.sc.link # NoLink
    /\ ~FailsDomainRule(cfg, last.sc.link)
    /\ FailsPathRule(cfg, last.sc.link)
    /\ last.sc.fetch.ok
    /\ last.out.reason \in {"url_not_whitelisted", "url_blacklisted"}

\* the candidate is one the availability check must reject on its static text
StaticOutOfStock(c, sc) ==
    /\ Fetched(c, sc)
    /\ c.require_in_stock
    /\ \E w \in c.availability_keywords.out_of_stock :
          Contains(Lower(sc.fetch.v.text), Lower(w))

\* C6: with in-stock required, a candidate whose static text holds a marker is
\* rejected as out of stock before pricing: no extractor runs on it, no render
\* is attempted, no offer is appended and the accepted count stays as it was.
C6_StaticOutOfStockRejected ==
    [][(pc = "for" /\ StaticOutOfStock(cfg, last'.sc)) =>
          /\ last'.out.reason = "out_of_stock_marker"
          /\ last'.out.ld = 0
          /\ last'.out.rx = 0
          /\ last'.out.renders = 0
          /\ _RENDER_COUNT' = _RENDER_COUNT
          /\ items' = items
          /\ fetched' = fetched]_vars

\* C6's case: rendering is enabled with budget left for the candidate's domain,
\* the static text holds a marker written in another case than the configured
\* one and a price the pattern extractor would find, and the candidate was
\* rejected as out of stock.
C6_MarkedWithRenderingOn ==
    /\ Iterated
    /\ StaticOutOfStock(cfg, last.sc)
    /\ \A w \in Markers : ~Contains(last.sc.fetch.v.text, w)
    /\ Len(last.sc.fetch.v.matches) > 0
    /\ cfg.rendering.enable_js
    /\ RenderDomainOk(cfg, _domain(last.sc.link))
    /\ last.count < MaxJsPages
    /\ last.out.reason = "out_of_stock_marker"

\* C7: the price of every offer search() returns is absent or greater than zero.
C7_PricesAbsentOrPositive ==
    \A i \in 1..Len(offers) : offers[i].price_pln.ok => offers[i].price_pln.v > 0

\* C8: the list search() returns has one entry per URL accepted, none missing,
\* and the entry of a URL is the last offer accepted with that URL.
C8_OneEntryPerUrlLastWins ==
    call = "returned" =>
        /\ \A i, j \in 1..Len(offers) : offers[i].url = offers[j].url => i = j
        /\ {offers[i].url : i \in 1..Len(offers)} = {items[k].url : k \in 1..Len(items)}
        /\ \A i \in 1..Len(offers) :
              \E k \in 1..Len(items) :
                 /\ items[k] = offers[i]
                 /\ \A m \in (k + 1)..Len(items) : items[m].url # offers[i].url

\* C8's case: two offers of one URL with different prices were accepted and the
\* call returned one entry for them.
C8_SameUrlTwice ==
    /\ call = "returned"
    /\ Len(offers) < Len(items)
    /\ \E k, m \in 1..Len(items) :
          /\ k < m
          /\ items[k].url = items[m].url
          /\ items[k].price_pln # items[m].price_pln

\* C9: the accepted count of a search() call never exceeds max_results, and
\* from the moment it has reached max_results the call does nothing but
\* return: no candidate is iterated, nothing is rendered, no page is requested.
C9_StopsAtMaxResults ==
    [][/\ fetched' <= max_results
       /\ (pc \in {"while", "for"} /\ fetched >= max_results) =>
             /\ pc' = "run"
             /\ call' = "returned"
             /\ last' = NoLast
             /\ renders' = renders
             /\ offers' = Dedup(items)]_vars

\* C9's case: the candidate just accepted made the count reach a max_results
\* of at least one while the provider had more results to list.
C9_ReachedMaxResults ==
    /\ pc = "while"
    /\ Iterated
    /\ last.out.reason = "accepted"
    /\ max_results >= 1
    /\ fetched = max_results
    /\ listed < MaxCandidates

\* C10: no candidate makes search() leave its loop: after any candidate is
\* iterated the call goes on with the next candidate, the next page or the
\* return of the offers accepted so far.
C10_CandidateNeverAbortsCall == Iterated => pc \in {"for", "while"}

\* C11: a candidate whose document fetch fails, by a network error, a timeout
\* or an HTTP error status alike, ends rejected as fetch_error: it is not
\* checked for availability, not priced, not rendered, and no offer is
\* appended for it.
C11_FetchFailureRejected ==
    (Iterated /\ last.sc.link # NoLink /\ last.sc.how # "ok"
        /\ ~FailsDomainRule(cfg, last.sc.link) /\ ~FailsPathRule(cfg, last.sc.link)) =>
        /\ last.out.reason = "fetch_error"
        /\ last.out.ld = 0
        /\ last.out.rx = 0
        /\ last.out.renders = 0
        /\ \A i \in 1..Len(items) : items[i].url # last.sc.link

\* the units, amounts (in hundredths) and rate settings conversion is tried on
Units ==
    {<<"zl">>, <<"ZL">>, <<"pln">>, <<"PLN">>, <<"euro">>, <<"eur">>, <<"EUR">>,
     <<"kcz">>, <<"kc">>, <<"CZK">>, <<"USD">>, <<>>}
Amounts == {0, 500, 19999}
RateSettings ==
    [parse_eur : BOOLEAN, eur_to_pln : {None, Some(430)},
     parse_czk : BOOLEAN, czk_to_pln : {None, Some(18)}]

IsReference(u) == Lower(u) \in {<<"zl">>, <<"pln">>}
IsEuro(u) == Lower(u) \in {<<"euro">>, <<"eur">>}
IsCrown(u) == Lower(u) \in {<<"kcz">>, <<"kc">>, <<"czk">>}

\* no rate applies to the unit: a foreign unit whose flag is off or whose rate
\* is missing, or a unit that is not recognised
Unavailable(u, rates) ==
    \/ IsEuro(u) /\ (~rates.parse_eur \/ ~rates.eur_to_pln.ok)
    \/ IsCrown(u) /\ (~rates.parse_czk \/ ~rates.czk_to_pln.ok)
    \/ ~IsReference(u) /\ ~IsEuro(u) /\ ~IsCrown(u)

\* conversion of every amount in every unit under every rate setting
ConversionSound ==
    \A v \in Amounts : \A u \in Units : \A r \in RateSettings :
        /\ IsReference(u) => _convert_to_pln(v, u, r) = Some(v)
        /\ Unavailable(u, r) => ~_convert_to_pln(v, u, r).ok

\* the document the price of the last candidate was extracted from
PricedDoc == IF last.out.used_js = 1 THEN last.sc.render.v ELSE last.sc.fetch.v

\* the amounts in PLN of the price matches of doc to which a rate applies
Convertible(doc, rates) ==
    {IF IsReference(doc.matches[i].unit) THEN _to_float(doc.matches[i].num).v
     ELSE IF IsEuro(doc.matches[i].unit)
     THEN (_to_float(doc.matches[i].num).v * rates.eur_to_pln.v) \div 100
     ELSE (_to_float(doc.matches[i].num).v * rates.czk_to_pln.v) \div 100 :
        i \in {j \in 1..Len(doc.matches) : ~Unavailable(doc.matches[j].unit, rates)}}

\* C12: conversion returns unavailable for every foreign unit whose flag is
\* off or whose rate is missing and for every unrecognised unit, and the value
\* unchanged for the reference currency; and the price of a candidate priced
\* by the pattern extractor is the amount of a match to which a rate applies,
\* never that of a match whose conversion is unavailable.
C12_ConversionNeverFabricates ==
    /\ ConversionSound
    /\ (Iterated /\ last.out.price.ok /\ Len(PricedDoc.blocks) = 0) =>
          last.out.price.v \in Convertible(PricedDoc, cfg.currency)

\* C12's case: the candidate just accepted has a page with a price in euro
\* while euro is not converted, and another price in the reference currency,
\* which became the price of its offer.
C12_EuroMatchDiscarded ==
    /\ Iterated
    /\ last.out.reason = "accepted"
    /\ \E i \in 1..Len(PricedDoc.matches) :
          /\ IsEuro(PricedDoc.matches[i].unit)
          /\ Unavailable(PricedDoc.matches[i].unit, cfg.currency)
    /\ last.out.price.ok
    /\ items[Len(items)].price_pln = last.out.price

\* the last search() call was left by the exception of a failed provider request
ProviderFailed == call = "raised" /\ ~Iterated

\* C13: a search() call whose provider requests all return ends by reaching
\* its return, with at most max_results offers accepted: once the call is
\* over and no provider request failed, it has returned its list.
C13_CallReachesReturn ==
    /\ pc \in {"while", "for"} => fetched <= max_results
    /\ (pc = "run" /\ call # "" /\ ~ProviderFailed) =>
          /\ call = "returned"
          /\ Len(offers) <= max_results

\* a typed node for structured data: an offer with a price and a currency
LdNode(type, price, cur) ==
    JDict(<< <<"@type", JStr(type)>>, <<"price", price>>, <<"priceCurrency", JStr(<<cur>>)>> >>)

\* documents structured extraction is tried on: the page with two offers under
\* a product; a product with a price of its own beside its offers, one of them
\* in euro; offers nested below untyped nodes and spread over two blocks; a
\* block that parses only line by line; offers without a valid converted
\* price; a page without structured data
LdDocs ==
    { DocLd,
      Page(<<>>,
           <<Block(JDict(<< <<"@type", JStr(<<"Product">>)>>, <<"price", JNum(10000)>>,
                            <<"offers", JList(<<LdNode(<<"Offer">>, JNum(20000), "PLN"),
                                                LdNode(<<"Offer">>, JNum(500), "EUR")>>)>> >>))>>,
           <<>>),
      Page(<<>>,
           <<Block(JDict(<< <<"@graph",
                             JList(<<JDict(<< <<"@type", JStr(<<"Thing">>)>>,
                                              <<"item", LdNode(<<"Offer">>, JStr(<<"3", "0", "0">>), "PLN")>> >>)>>)>> >>)),
             Block(LdNode(<<"Aggregate", "Offer">>, JNum(25000), "PLN"))>>,
           <<>>),
      Page(<<>>,
           <<[whole |-> JBad,
              lines |-> <<JBad, LdNode(<<"Offer">>, JNum(40000), "PLN"),
                          LdNode(<<"Offer">>, JNum(35000), "PLN")>>]>>,
           <<>>),
      Page(<<>>,
           <<Block(JList(<<LdNode(<<"Offer">>, JStr(<<"a">>), "PLN"),
                           LdNode(<<"Offer">>, JNum(700), "USD"),
                           LdNode(<<"Thing">>, JNum(100), "PLN")>>))>>,
           <<>>),
      DocEmpty }

\* a candidate offer node: a dict whose type tag names a product or an offer
IsCandidateNode(j) ==
    /\ j.t = "dict"
    /\ TypeTag(j).t = "str"
    /\ \E w \in {<<"product">>, <<"offer">>} : Contains(Lower(TypeTag(j).s), w)

RECURSIVE PricesIn(_, _)
\* the valid converted prices of the candidate offer nodes at any depth of j;
\* a candidate node with an offers field has no price of its own
PricesIn(j, rates) ==
    IF j.t = "list" THEN UNION {PricesIn(j.xs[i], rates) : i \in 1..Len(j.xs)}
    ELSE IF j.t = "dict"
    THEN (IF IsCandidateNode(j) /\ ~HasKey(j, "offers")
          THEN {NodePrice(j, rates)[i] : i \in 1..Len(NodePrice(j, rates))}
          ELSE {})
         \cup UNION {PricesIn(j.kv[i][2], rates) : i \in 1..Len(j.kv)}
    ELSE {}

\* the valid converted prices of all structured-data blocks of doc
PricesOf(doc, rates) ==
    UNION {IF doc.blocks[b].whole.t # "bad" THEN PricesIn(doc.blocks[b].whole, rates)
           ELSE UNION {PricesIn(doc.blocks[b].lines[l], rates) :
                          l \in 1..Len(doc.blocks[b].lines)} :
              b \in 1..Len(doc.blocks)}

\* result is the minimum of the set of prices, or None for the empty set
IsMinimum(result, prices) ==
    IF prices = {} THEN ~result.ok
    ELSE result.ok /\ result.v \in prices /\ \A q \in prices : result.v <= q

\* what structured extraction returns, when it returns, on the documents of
\* LdDocs and of the web under every rate setting
ExtractionSound ==
    \A doc \in LdDocs \cup {sc.fetch.v : sc \in Web} \cup {sc.render.v : sc \in Web} :
        \A r \in Currencies :
            ~_extract_from_jsonld(doc, r).raised =>
                IsMinimum(_extract_from_jsonld(doc, r).v, PricesOf(doc, r))

\* C14: structured extraction, when it returns, returns the minimum of the
\* valid converted prices of the candidate offer nodes of all blocks of the
\* document, at any depth, and no price when there is none; a node with an
\* offers field contributes only what is found under it.  A candidate priced
\* by structured extraction carries that minimum.
C14_StructuredMinimum ==
    /\ ExtractionSound
    /\ (Iterated /\ last.out.reason # "raised" /\ last.out.ld > 0
           /\ \E q \in PricesOf(PricedDoc, cfg.currency) : q # 0) =>
          IsMinimum(last.out.price, PricesOf(PricedDoc, cfg.currency))

\* C14's case: the page with offers of 199.99 and 149.50 under a product was
\* priced, at 149.50.
C14_TwoOffersLowestWins ==
    /\ Iterated
    /\ last.out.reason = "accepted"
    /\ PricesOf(PricedDoc, cfg.currency) = {19999, 14950}
    /\ last.out.price = Some(14950)

\* what static extraction gives for the last candidate
StaticPrice == ExtractPrice(last.sc.fetch.v, cfg.currency)

\* the last candidate was fetched, passed the static availability check and
\* its static extraction came back
ReachedRenderDecision ==
    /\ Iterated
    /\ Fetched(cfg, last.sc)
    /\ ~StaticOutOfStock(cfg, last.sc)
    /\ ~StaticPrice.raised

\* the four conditions of a render, at the moment the candidate was iterated
RenderConditions ==
    /\ ~StaticPrice.v.ok
    /\ cfg.rendering.enable_js
    /\ \/ cfg.rendering.js_domains_whitelist = {}
       \/ \E w \in cfg.rendering.js_domains_whitelist : EndsWith(_domain(last.sc.link), w)
    /\ last.count < MaxJsPages

\* C15: for a fetched candidate that passed the static availability check the
\* renderer is invoked if and only if the candidate is unpriced after static
\* extraction, rendering is enabled, the render allow-set is empty or matches
\* the candidate's domain, and the render counter is below max_js_pages_per_run.
C15_RenderedIffConditions ==
    ReachedRenderDecision => (last.out.renders = 1 <=> RenderConditions)

\* C15's case: with a render allow-set configured, the candidate was rendered
\* on the last render the budget allowed.
C15_RenderedOnLastBudget ==
    /\ ReachedRenderDecision
    /\ cfg.rendering.js_domains_whitelist # {}
    /\ last.count + 1 = MaxJsPages
    /\ last.out.renders = 1
    /\ _RENDER_COUNT = MaxJsPages

\* the pattern p is found in the title of sc, in its static text, or in its
\* rendered text when the render was attempted (tried) and gave markup
MatchedAnywhere(p, sc, tried) ==
    \/ Contains(sc.title, p)
    \/ Contains(sc.fetch.v.text, p)
    \/ tried /\ sc.render.ok /\ Contains(sc.render.v.text, p)

\* C16: with a pattern compiled, a candidate is accepted only if the pattern
\* is found in its title, its static text or its successfully rendered text;
\* a candidate that comes through fetch, availability and pricing with the
\* pattern found nowhere is rejected for the pattern mismatch, no offer is
\* appended for it and the accepted count stays as it was.
C16_FinalIdentityCheck ==
    [][(pc = "for" /\ pat.ok) =>
          /\ last'.out.reason = "accepted" =>
                MatchedAnywhere(pat.v, last'.sc, last'.out.renders = 1)
          /\ (/\ Fetched(cfg, last'.sc)
              /\ ~StaticOutOfStock(cfg, last'.sc)
              /\ last'.out.reason # "raised"
              /\ ~MatchedAnywhere(pat.v, last'.sc, last'.out.renders = 1)) =>
                /\ last'.out.reason = "pattern_final_no_match"
                /\ items' = items
                /\ fetched' = fetched]_vars

\* C16's case: the pattern was found neither in the title nor in the static
\* text, the render was attempted and gave nothing, and the candidate was
\* rejected for the mismatch.
C16_MismatchAfterFailedRender ==
    /\ Iterated
    /\ pat.ok
    /\ Fetched(cfg, last.sc)
    /\ ~MatchedAnywhere(pat.v, last.sc, TRUE)
    /\ last.out.renders = 1
    /\ last.out.reason = "pattern_final_no_match"

\* the last candidate was fetched with a pattern compiled that is found
\* neither in its title nor in its static text
ProvisionalMismatch ==
    /\ Iterated
    /\ pat.ok
    /\ Fetched(cfg, last.sc)
    /\ ~Contains(last.sc.title, pat.v)
    /\ ~Contains(last.sc.fetch.v.text, pat.v)

\* C17: a candidate with a provisional pattern mismatch still goes through the
\* availability check, static pricing and the render decision; rendered
\* successfully with the pattern found in the rendered text it is accepted;
\* it is rejected for the mismatch only after pricing and the render decision.
C17_MismatchDeferred ==
    ProvisionalMismatch =>
        /\ StaticOutOfStock(cfg, last.sc) <=> last.out.reason = "out_of_stock_marker"
        /\ ~StaticOutOfStock(cfg, last.sc) =>
              /\ last.out.ld >= 1
              /\ ~StaticPrice.raised => (last.out.renders = 1 <=> RenderConditions)
        /\ (/\ last.out.renders = 1
            /\ last.sc.render.ok
            /\ Contains(last.sc.render.v.text, pat.v)
            /\ last.out.reason # "raised") => last.out.reason = "accepted"

\* C17's case: the pattern is in neither the title nor the static text, the
\* page was rendered, the rendered text holds the pattern, and the candidate
\* was accepted.
C17_ConfirmedByRender ==
    /\ ProvisionalMismatch
    /\ last.out.renders = 1
    /\ last.sc.render.ok
    /\ Contains(last.sc.render.v.text, pat.v)
    /\ last.out.reason = "accepted"
    /\ items[Len(items)].url = last.sc.link

\* the four rules, each on its own: the rule set is not empty and the link
\* fails it
FailsAllowSet(c, link) ==
    /\ c.websearch.site_whitelist # {}
    /\ \A w \in c.websearch.site_whitelist : ~EndsWith(_domain(link), w)
FailsDenySet(c, link) == \E b \in c.websearch.site_blacklist : EndsWith(_domain(link), b)
FailsAllowPatterns(c, link) ==
    /\ c.websearch.url_whitelist_patterns # {}
    /\ \A p \in c.websearch.url_whitelist_patterns : ~Contains(LinkText(link), p)
FailsDenyPatterns(c, link) ==
    \E p \in c.websearch.url_blacklist_patterns : Contains(LinkText(link), p)

\* the reason of the first rule the link fails in the order allow-set,
\* deny-set, allow-patterns, deny-patterns; "" when it fails none
FirstFailure(c, link) ==
    CASE FailsAllowSet(c, link) -> "domain_not_whitelisted"
      [] ~FailsAllowSet(c, link) /\ FailsDenySet(c, link) -> "domain_blacklisted"
      [] ~FailsAllowSet(c, link) /\ ~FailsDenySet(c, link) /\ FailsAllowPatterns(c, link) ->
            "url_not_whitelisted"
      [] /\ ~FailsAllowSet(c, link) /\ ~FailsDenySet(c, link)
         /\ ~FailsAllowPatterns(c, link) /\ FailsDenyPatterns(c, link) -> "url_blacklisted"
      [] OTHER -> ""

\* C18: the reason recorded for a filtered candidate is that of the first rule
\* it fails in the order domain allow-set, domain deny-set, path
\* allow-patterns, path deny-patterns; an empty rule set rejects nothing; a
\* candidate is passed to fetch exactly when it fails none of the four.
C18_FirstFailingRuleDecides ==
    (Iterated /\ last.sc.link # NoLink) =>
        IF FirstFailure(cfg, last.sc.link) = ""
        THEN last.out.fetches = 1
        ELSE last.out.fetches = 0 /\ last.out.reason = FirstFailure(cfg, last.sc.link)

\* C18's case: the link fails all four rules and the reason recorded is that
\* of the domain allow-set.
C18_FailsEveryRule ==
    /\ Iterated
    /\ last.sc.link # NoLink
    /\ FailsAllowSet(cfg, last.sc.link)
    /\ FailsDenySet(cfg, last.sc.link)
    /\ FailsAllowPatterns(cfg, last.sc.link)
    /\ FailsDenyPatterns(cfg, last.sc.link)
    /\ last.out.reason = "domain_not_whitelisted"

\* the pattern setting of the product of the search() call that is running,
\* or that has just ended; NoPattern outside of calls
CalledWith ==
    IF pc \in {"while", "for"} THEN cfg.products[prod]
    ELSE IF pc = "run" /\ call # "" /\ prod > 1 THEN cfg.products[prod - 1]
    ELSE NoPattern

\* C19: a search() call with a malformed pattern runs without a pattern: no
\* candidate is rejected for a pattern mismatch, every candidate that passes
\* the domain rules, the path rules, fetch and the availability check and
\* comes through pricing is accepted, and the call is left by an exception
\* only for a failed provider request or for a candidate's extraction.
C19_MalformedPatternIgnored ==
    CalledWith = Some(Malformed) =>
        /\ pc \in {"while", "for"} => ~pat.ok
        /\ Iterated =>
              /\ last.out.reason # "pattern_final_no_match"
              /\ (/\ Fetched(cfg, last.sc)
                  /\ ~StaticOutOfStock(cfg, last.sc)
                  /\ last.out.reason # "raised") => last.out.reason = "accepted"
        /\ call = "raised" => (ProviderFailed \/ last.out.reason = "raised")

\* C19's case: in a call with a malformed pattern, a candidate whose title and
\* text do not contain the pattern as written was accepted.
C19_AcceptedWithoutPattern ==
    /\ CalledWith = Some(Malformed)
    /\ Iterated
    /\ ~Contains(last.sc.title, Malformed.lit)
    /\ ~Contains(last.sc.fetch.v.text, Malformed.lit)
    /\ last.out.reason = "accepted"
    /\ items[Len(items)].url = last.sc.link

\* the render attempted for the last candidate, whose document was fetched
\* without error, returned no rendered content
RenderFailed ==
    /\ Iterated
    /\ last.sc.how = "ok"
    /\ last.out.renders = 1
    /\ ~last.sc.render.ok

\* C20, as stated: a candidate whose render attempt returns no rendered
\* content ends rejected, no offer is emitted for it, and the call goes on.
C20_FailedRenderRejects ==
    RenderFailed =>
        /\ last.out.reason # "accepted"
        /\ \A i \in 1..Len(items) : items[i].url # last.sc.link
        /\ pc \in {"for", "while"}

\* C20, amended: a failed render never ends the call, and the candidate goes
\* on to the final identity check without rendered content: with no pattern
\* compiled, or the pattern found in its title or static text, it is accepted
\* with an offer that has no price; otherwise it is rejected for the pattern
\* mismatch.  The attempt is counted either way.
C20_FailedRenderDegrades ==
    RenderFailed =>
        /\ pc \in {"for", "while"}
        /\ _RENDER_COUNT = last.count + 1
        /\ IF ~pat.ok \/ Contains(last.sc.title, pat.v)
                      \/ Contains(last.sc.fetch.v.text, pat.v)
           THEN /\ last.out.reason = "accepted"
                /\ items[Len(items)].url = last.sc.link
                /\ ~items[Len(items)].price_pln.ok
           ELSE last.out.reason = "pattern_final_no_match"

\* C20's case: a render was attempted and gave nothing, and the candidate was
\* accepted with an offer without a price.
C20_AcceptedAfterFailedRender ==
    /\ RenderFailed
    /\ last.out.reason = "accepted"
    /\ Len(items) > 0
    /\ items[Len(items)].url = last.sc.link
    /\ ~items[Len(items)].price_pln.ok

\* the last candidate was fetched, passed the static availability check, and
\* no extraction raised: its static document was priced
StaticExtracted ==
    /\ Iterated
    /\ Fetched(cfg, last.sc)
    /\ ~StaticOutOfStock(cfg, last.sc)
    /\ last.out.reason # "raised"

\* the last candidate was rendered and the rendered document, free of
\* out-of-stock markers where in-stock is required, was priced
RenderedExtracted ==
    /\ StaticExtracted
    /\ last.out.used_js = 1
    /\ ~(cfg.require_in_stock /\ HasMarker(last.sc.render.v))

\* the structured data of doc holds a valid converted price
StructuredFound(doc) == PricesOf(doc, cfg.currency) # {}

\* C21: whenever the structured data of the document a candidate is priced on,
\* static or rendered, holds a price, the candidate's price is the structured
\* price and the pattern extractor is not run on that document: on a static
\* document with a structured price it is not run at all, and after a render
\* whose document has a structured price it has run at most on the static one.
C21_StructuredPriceWins ==
    /\ (StaticExtracted /\ StructuredFound(last.sc.fetch.v)) =>
          /\ last.out.rx = 0
          /\ IsMinimum(last.out.price, PricesOf(last.sc.fetch.v, cfg.currency))
    /\ (RenderedExtracted /\ StructuredFound(last.sc.render.v)) =>
          /\ last.out.rx <= 1
          /\ IsMinimum(last.out.price, PricesOf(last.sc.render.v, cfg.currency))

\* C22: there is no retry.  Iterating a candidate requests its document at
\* most once and invokes the renderer at most once, whether or not the attempt
\* succeeds, and the candidate is then left behind: the call goes on with the
\* next result of the page, or leaves the page for the one after it, or ends.
\* No step but the iteration of a candidate invokes the renderer, and a page
\* of results is requested at the position the call has advanced to.
C22_NoRetry ==
    [][/\ pc = "for" =>
             /\ last'.out.fetches <= 1
             /\ last'.out.renders <= 1
             /\ renders' = renders + last'.out.renders
             /\ _RENDER_COUNT' <= _RENDER_COUNT + 1
             /\ pc' = "for" => (results' = results - 1 /\ start' = start)
             /\ pc' = "while" => (results' = 0 /\ start' = start + PageSize)
       /\ pc # "for" => renders' = renders
       /\ (pc = "while" /\ pc' = "for") => start' = start]_vars

\* C22's case: the document of the last candidate was requested once, its one
\* render gave nothing, and the call is at the next result of the same page.
C22_FailedOnceThenNext ==
    /\ RenderFailed
    /\ last.out.fetches = 1
    /\ renders = 1
    /\ _RENDER_COUNT = last.count + 1
    /\ pc = "for"
    /\ results >= 1

\* C23: when a provider request fails, on the first page or on a later one,
\* search() is left by the exception before deduplication: run_once gets an
\* empty list of offers for the store, whatever had been accepted from the
\* pages before, and goes on with the next store.
C23_ProviderFailureDropsAccepted ==
    [][(pc = "while" /\ call' = "raised") =>
          /\ offers' = <<>>
          /\ pc' = "run"
          /\ prod' = prod + 1
          /\ runs' = runs]_vars

\* C23's case: the provider request failed after a page from which an offer
\* had been accepted, and run_once holds an empty list.
C23_FailedAfterAcceptedPage ==
    /\ ProviderFailed
    /\ pc = "run"
    /\ prod > 1
    /\ Len(items) >= 1
    /\ offers = <<>>


=============================================================================
